---- MODULE Spec2Model ----
(***************************************************************************)
(* A model of examples/user_guide/Drawing_Tools.ipynb.                     *)
(*                                                                         *)
(* The notebook builds geometry elements, attaches drawing streams to      *)
(* them, and reads the streams back in later cells.  The code cells are    *)
(* modelled as cell executions; the gestures of the drawing tools are      *)
(* modelled as the notebook's markdown cells document them (add, move,     *)
(* delete, and the num_objects limit that drops the oldest object).        *)
(*                                                                         *)
(* A shape is a record [born, geom]: geom is its vertex sequence (one      *)
(* vertex for a point, four for a box), born is the order in which it was  *)
(* put on the plot.                                                        *)
(***************************************************************************)
EXTENDS Integers, Sequences, FiniteSets, TLC

VARIABLES
    plot,             \* the plot the user is interacting with
    tool,             \* the drawing tool selected in that plot's toolbar
    canvas,           \* source element name -> shapes currently on the plot
    data,             \* stream name -> the stream's mirrored data
    nextId,           \* birth stamp of the next shape put on a plot
    gestures,         \* number of gestures made so far
    last,             \* the last gesture made: [op, evicted]
    poly,             \* argument of bbox
    result,           \* value returned by bbox, None before the call
    execution_count,  \* cell -> number of its last execution, 0 if never run
    outputs,          \* cell -> what the cell displayed when it last ran
    mask_shape,       \* the kernel variable mask_shape
    fs,               \* the file system: [dirs, files]
    raised            \* exception raised by the last cell run, None if none

vars == <<plot, tool, canvas, data, nextId, gestures, last, poly, result,
          execution_count, outputs, mask_shape, fs, raised>>

drawVars == <<plot, tool, canvas, data, nextId, gestures, last>>
bboxVars == <<poly, result>>
cellVars == <<execution_count, outputs, mask_shape, fs, raised>>

\* ---------------------------------------------------------------- bounds

MaxX == 2
MaxY == 1
MaxGestures == 1
MaxVerts == 3
MaxRuns == 2

None == "None"

Vertex == (0..MaxX) \X (0..MaxY)


\* ------------------------------------------------- the streams of the notebook

point_stream ==
    [tool |-> "PointDraw", source |-> "points", num_objects |-> 10]

box_stream ==
    [tool |-> "BoxEdit", source |-> "box_poly", num_objects |-> 3]

vertex_stream ==
    [tool |-> "PolyEdit", source |-> "mask_poly"]

freehand_stream ==
    [tool |-> "FreehandDraw", source |-> "path", num_objects |-> 3]

poly_stream ==
    [tool |-> "PolyDraw", source |-> "new_polys"]

path_stream ==
    [tool |-> "PolyDraw", source |-> "new_paths"]

\* the second new_polys, with a PolyDraw and a PolyEdit stream on it
poly_stream2 ==
    [tool |-> "PolyDraw", source |-> "new_polys2"]

vertex_stream2 ==
    [tool |-> "PolyEdit", source |-> "new_polys2"]

Streams ==
    [point_stream |-> point_stream,
     box_stream |-> box_stream,
     vertex_stream |-> vertex_stream,
     freehand_stream |-> freehand_stream,
     poly_stream |-> poly_stream,
     path_stream |-> path_stream,
     poly_stream2 |-> poly_stream2,
     vertex_stream2 |-> vertex_stream2]

StreamNames == DOMAIN Streams

Sources == {Streams[s].source : s \in StreamNames}

\* the streams whose tools are in the toolbar of each plot (tiles * ...)
PlotStreams ==
    [points |-> {"point_stream"},
     boxes |-> {"box_stream"},
     mask |-> {"vertex_stream"},
     freehand |-> {"freehand_stream"},
     polypath |-> {"poly_stream", "path_stream"},
     drawedit |-> {"poly_stream2", "vertex_stream2"}]

\* the source a tool's gestures act on
ToolSourceOfFirstCopy(t) ==
    IF Streams[t].tool = "PolyDraw" /\ plot = "polypath"
    THEN poly_stream.source
    ELSE Streams[t].source

ToolSource(t) == Streams[t].source

HasLimit(t) == "num_objects" \in DOMAIN Streams[t]

\* ------------------------------------------------------------ geometry

Shape(id, g) == [born |-> id, geom |-> g]

\* the rectangle spanned by a drag from corner a to corner c
BoxGeomCrossed(a, c) == <<a, c, <<a[1], c[2]>>, <<c[1], a[2]>>>>

BoxGeom(a, c) == <<a, <<a[1], c[2]>>, c, <<c[1], a[2]>>>>

InGrid(g) == \A i \in 1..Len(g) : g[i] \in Vertex

\* a whole shape dragged by the offset d
Translate(g, d) == [i \in 1..Len(g) |-> <<g[i][1] + d[1], g[i][2] + d[2]>>]

\* a drag moves by one grid step along either axis or both
Offsets == {d \in (-1..1) \X (-1..1) : d # <<0, 0>>}

\* a drag along one axis
Steps == {d \in Offsets : d[1] = 0 \/ d[2] = 0}

Moved(v, d) == <<v[1] + d[1], v[2] + d[2]>>

\* the shortest stroke a drawing gesture can leave behind: two vertices,
\* one drag apart
Strokes ==
    {s \in {<<a, Moved(a, d)>> : a \in Vertex, d \in Offsets} : InGrid(s)}

InsertAt(g, k, v) ==
    [j \in 1..(Len(g) + 1) |->
        IF j <= k THEN g[j] ELSE IF j = k + 1 THEN v ELSE g[j - 1]]

RECURSIVE Keep(_, _, _)
\* the vertices of g from position j on whose positions are not in K
Keep(g, K, j) ==
    IF j > Len(g) THEN <<>>
    ELSE IF j \in K THEN Keep(g, K, j + 1)
    ELSE <<g[j]>> \o Keep(g, K, j + 1)

\* -------------------------------------------------------- initial sources

\* np.random.rand(10, 2)*10: ten points scattered over the plot
RandPoint(i) == <<i % (MaxX + 1), (i \div (MaxX + 1)) % (MaxY + 1)>>

points(n) == [i \in 1..n |-> Shape(i, <<RandPoint(i)>>)]

\* hv.Bounds((-90.99, 32.25, -90.85, 32.37)): left < right, bottom < top
sample_box == BoxGeom(<<0, 0>>, <<1, 1>>)

box_poly(n) == [i \in 1..n |-> Shape(i, sample_box)]

\* gv.Path([[(0, 52), (-74, 43)]]): one two-vertex path
path(n) == [i \in 1..n |-> Shape(i, <<<<1, 1>>, <<0, 0>>>>)]

\* the first three vertices of sample_poly: east, north-west, west
sample_poly == <<<<1, 0>>, <<0, 1>>, <<0, 0>>>>

\* the turn of sample_path: west, east, then south
sample_path == <<<<0, 1>>, <<1, 1>>, <<1, 0>>>>

new_polys(n) == [i \in 1..n |-> Shape(i, sample_poly)]

new_paths(n) == [i \in 1..n |-> Shape(i, sample_path)]

\* the source as written, an empty list, or one that fills the limit
SourceSizes(written, limit) == {0, written, limit}

\* --------------------------------------------------------- stream plumbing

\* every stream mirrors the shapes of the source it is attached to
SyncLate(cv) ==
    [s \in StreamNames |->
        SubSeq(cv[Streams[s].source], 1, Len(cv[Streams[s].source]) - 1)]

Sync(cv) == [s \in StreamNames |-> cv[Streams[s].source]]

\* num_objects: once the limit is reached the oldest shape is dropped
Full(shapes, t) == HasLimit(t) /\ Len(shapes) >= Streams[t].num_objects

DropNewest(shapes, t) ==
    IF Full(shapes, t) THEN SubSeq(shapes, 1, Len(shapes) - 1) ELSE shapes

DropNothing(shapes, t) == shapes

DropOldest(shapes, t) == IF Full(shapes, t) THEN Tail(shapes) ELSE shapes

AddShape(shapes, g, t) == Append(DropOldest(shapes, t), Shape(nextId, g))

MoveShape(shapes, i, g) == [shapes EXCEPT ![i].geom = g]

DeleteShape(shapes, i) ==
    [j \in 1..(Len(shapes) - 1) |-> IF j < i THEN shapes[j] ELSE shapes[j + 1]]

Shapes(t) == canvas[ToolSource(t)]

\* the toolbar: a drawing tool acts only once its icon is selected
SelectTool(t) ==
    /\ t \in PlotStreams[plot]
    /\ tool # t
    /\ tool' = t
    /\ UNCHANGED <<plot, canvas, data, nextId, gestures, last>>
    /\ UNCHANGED <<bboxVars, cellVars>>

\* a gesture of tool t leaves t's source as `shapes`, and the streams follow
Gesture(t, shapes, op, born, evicted) ==
    /\ tool = t
    /\ gestures < MaxGestures
    /\ canvas' = [canvas EXCEPT ![ToolSource(t)] = shapes]
    /\ data' = Sync(canvas')
    /\ gestures' = gestures + 1
    /\ nextId' = nextId + born
    /\ last' = [op |-> op, evicted |-> evicted]
    /\ UNCHANGED <<plot, tool>>
    /\ UNCHANGED <<bboxVars, cellVars>>

\* -------------------------------------------------------------- PointDraw

AddPoint(p) ==
    LET t == "point_stream"
    IN  /\ tool = t
        /\ Gesture(t, AddShape(Shapes(t), <<p>>, t), "add", 1,
                   Full(Shapes(t), t))

MovePoint(i, d) ==
    LET t == "point_stream"
    IN  /\ tool = t
        /\ i \in 1..Len(Shapes(t))
        /\ InGrid(Translate(Shapes(t)[i].geom, d))
        /\ Gesture(t, MoveShape(Shapes(t), i, Translate(Shapes(t)[i].geom, d)),
                   "move", 0, FALSE)

DeletePoint(i) ==
    LET t == "point_stream"
    IN  /\ tool = t
        /\ i \in 1..Len(Shapes(t))
        /\ Gesture(t, DeleteShape(Shapes(t), i), "delete", 0, FALSE)

\* ---------------------------------------------------------------- BoxEdit

AddBox(a, d) ==
    LET t == "box_stream"
        c == Moved(a, d)
    IN  /\ tool = t
        /\ c \in Vertex
        /\ Gesture(t, AddShape(Shapes(t), BoxGeom(a, c), t), "add", 1,
                   Full(Shapes(t), t))

MoveBox(i, d) ==
    LET t == "box_stream"
    IN  /\ tool = t
        /\ i \in 1..Len(Shapes(t))
        /\ InGrid(Translate(Shapes(t)[i].geom, d))
        /\ Gesture(t, MoveShape(Shapes(t), i, Translate(Shapes(t)[i].geom, d)),
                   "move", 0, FALSE)

DeleteBox(i) ==
    LET t == "box_stream"
    IN  /\ tool = t
        /\ i \in 1..Len(Shapes(t))
        /\ Gesture(t, DeleteShape(Shapes(t), i), "delete", 0, FALSE)

\* ----------------------------------------------------------- FreehandDraw

AddFreehand(s) ==
    LET t == "freehand_stream"
    IN  /\ tool = t
        /\ Gesture(t, AddShape(Shapes(t), s, t), "add", 1, Full(Shapes(t), t))

DeleteFreehand(i) ==
    LET t == "freehand_stream"
    IN  /\ tool = t
        /\ i \in 1..Len(Shapes(t))
        /\ Gesture(t, DeleteShape(Shapes(t), i), "delete", 0, FALSE)

\* --------------------------------------------------------------- PolyDraw

AddPoly(t, s) ==
    /\ tool = t
    /\ Streams[t].tool = "PolyDraw"
    /\ Gesture(t, AddShape(Shapes(t), s, t), "add", 1, Full(Shapes(t), t))

MovePoly(t, i, d) ==
    /\ tool = t
    /\ Streams[t].tool = "PolyDraw"
    /\ i \in 1..Len(Shapes(t))
    /\ InGrid(Translate(Shapes(t)[i].geom, d))
    /\ Gesture(t, MoveShape(Shapes(t), i, Translate(Shapes(t)[i].geom, d)),
               "move", 0, FALSE)

DeletePoly(t, i) ==
    /\ tool = t
    /\ Streams[t].tool = "PolyDraw"
    /\ i \in 1..Len(Shapes(t))
    /\ Gesture(t, DeleteShape(Shapes(t), i), "delete", 0, FALSE)

\* --------------------------------------------------------------- PolyEdit

AddVertex(t, i, k, d) ==
    /\ tool = t
    /\ Streams[t].tool = "PolyEdit"
    /\ i \in 1..Len(Shapes(t))
    /\ k \in 1..Len(Shapes(t)[i].geom)
    /\ Len(Shapes(t)[i].geom) <= MaxVerts
    /\ LET v == Moved(Shapes(t)[i].geom[k], d)
       IN  /\ v \in Vertex
           /\ Gesture(t, MoveShape(Shapes(t), i,
                                   InsertAt(Shapes(t)[i].geom, k, v)),
                      "add vertex", 0, FALSE)

MoveVertex(t, i, k, d) ==
    /\ tool = t
    /\ Streams[t].tool = "PolyEdit"
    /\ i \in 1..Len(Shapes(t))
    /\ k \in 1..Len(Shapes(t)[i].geom)
    /\ LET v == Moved(Shapes(t)[i].geom[k], d)
       IN  /\ v \in Vertex
           /\ Gesture(t, [Shapes(t) EXCEPT ![i].geom[k] = v],
                      "move vertex", 0, FALSE)

\* the selected vertices K of shape i are deleted; the shape stays
RemoveVerticesAndEmpty(shapes, i, K) ==
    IF Keep(shapes[i].geom, K, 1) = <<>>
    THEN DeleteShape(shapes, i)
    ELSE MoveShape(shapes, i, Keep(shapes[i].geom, K, 1))

RemoveVertices(shapes, i, K) == MoveShape(shapes, i, Keep(shapes[i].geom, K, 1))

DeleteVertex(t, i, K) ==
    /\ tool = t
    /\ Streams[t].tool = "PolyEdit"
    /\ i \in 1..Len(Shapes(t))
    /\ K # {}
    /\ K \subseteq 1..Len(Shapes(t)[i].geom)
    /\ Gesture(t, RemoveVertices(Shapes(t), i, K), "delete vertex", 0, FALSE)

\* ------------------------------------------------------------------- bbox

bboxAdjacent(p) ==
    LET xs == [i \in 1..Len(p) |-> p[i][1]]
        ys == [i \in 1..Len(p) |-> p[i][2]]
    IN  <<xs[1], ys[1], xs[2], ys[2]>>

bbox(p) ==
    LET xs == [i \in 1..Len(p) |-> p[i][1]]
        ys == [i \in 1..Len(p) |-> p[i][2]]
    IN  <<xs[1], ys[1], xs[3], ys[3]>>

CallBBox ==
    /\ ~result.called
    /\ result' = [called |-> TRUE, value |-> bbox(poly)]
    /\ UNCHANGED <<drawVars, poly, cellVars>>

\* ------------------------------------------------------------- the kernel

Cells == {"dframe", "bboxes", "export"}

Max(S) == CHOOSE x \in S : \A y \in S : x >= y

\* the number the kernel gives the next cell it executes
NextCount == 1 + Max({execution_count[c] : c \in Cells})

Shown(v) == [shown |-> TRUE, value |-> v]

Nothing == [shown |-> FALSE, value |-> <<>>]

\* truth value of a stream's data or element in an `if`
AlwaysTruthy(d) == TRUE

Truthy(d) == Len(d) > 0

\* stream.element: the stream's data as an element of the source's type
Element(t) == data[t]

\* Points.dframe(): one row of coordinates per point
dframe(el) == [i \in 1..Len(el) |-> el[i].geom[1]]

\* Polygons.split(): one polygon per shape
split(el) == [i \in 1..Len(el) |-> el[i].geom]

\* if point_stream.data: display(point_stream.element.dframe())
RunPointsCell ==
    /\ NextCount <= MaxRuns
    /\ execution_count' = [execution_count EXCEPT !["dframe"] = NextCount]
    /\ outputs' = [outputs EXCEPT !["dframe"] =
                      IF Truthy(data["point_stream"])
                      THEN Shown(dframe(Element("point_stream")))
                      ELSE Nothing]
    /\ raised' = None
    /\ UNCHANGED <<drawVars, bboxVars, mask_shape, fs>>

\* if box_stream.element: ... print(bboxes)
RunBBoxCell ==
    /\ NextCount <= MaxRuns
    /\ execution_count' = [execution_count EXCEPT !["bboxes"] = NextCount]
    /\ outputs' = [outputs EXCEPT !["bboxes"] =
                      IF Truthy(Element("box_stream"))
                      THEN LET polygons == split(Element("box_stream"))
                           IN  Shown([i \in 1..Len(polygons) |-> bbox(polygons[i])])
                      ELSE Nothing]
    /\ raised' = None
    /\ UNCHANGED <<drawVars, bboxVars, mask_shape, fs>>

\* ------------------------------------------------------- shapefile export

shapefile == "../data/vicksburg_watershed/watershed_boundary.shp"

edited_shape_fname == "../data/vicksburg_watershed_edited/watershed_boundary.shp"

\* os.path.dirname
dirname(p) ==
    IF p = shapefile THEN "../data/vicksburg_watershed"
    ELSE "../data/vicksburg_watershed_edited"

\* the polygon stored in the watershed shapefile
watershed_boundary == <<<<0, 0>>, <<1, 0>>, <<1, 1>>>>

\* gv.Shape.from_shapefile: the shapes of the geometries stored in the file
from_shapefile(files, p) == [type |-> "Shape", geoms |-> files[p]]

\* gv.util.geom_to_array(shapes[0].data): the coordinates of the first one
geom_to_array(shapes) == [type |-> "ndarray", geoms |-> <<shapes.geoms[1]>>]

mask_poly(n) == [i \in 1..n |-> Shape(i, watershed_boundary)]

\* earthsim.io.save_shapefile(cdsdata, path, template): writes the polygons
\* of cdsdata to path; the template is only read
save_shapefile(files, cdsdata, p, template) ==
    [q \in (DOMAIN files) \cup {p} |->
        IF q = p THEN split(cdsdata) ELSE files[q]]

\* Element.opts() exists on elements, not on arrays
HasOpts(v) == v.type = "Shape"

RunExportCell ==
    /\ NextCount <= MaxRuns
    /\ execution_count' = [execution_count EXCEPT !["export"] = NextCount]
    /\ IF Truthy(data["vertex_stream"])
       THEN LET dir_name == dirname(edited_shape_fname)
                dirs == fs.dirs \cup {dir_name}
                files == save_shapefile(fs.files, data["vertex_stream"],
                                        edited_shape_fname, shapefile)
            IN  /\ fs' = [dirs |-> dirs, files |-> files]
                /\ mask_shape' = from_shapefile(files, edited_shape_fname)
       ELSE UNCHANGED <<fs, mask_shape>>
    /\ IF HasOpts(mask_shape')
       THEN /\ raised' = None
            /\ outputs' = [outputs EXCEPT !["export"] = Shown(mask_shape'.geoms)]
       ELSE /\ raised' = "AttributeError"
            /\ outputs' = [outputs EXCEPT !["export"] = Nothing]
    /\ UNCHANGED <<drawVars, bboxVars>>

\* ---------------------------------------------------------- specifications

PlotSources(pl) == {Streams[s].source : s \in PlotStreams[pl]}

\* sizes of the plot's sources: as written, empty, or filling the limit
PlotSizes(pl) ==
    CASE pl = "points" -> SourceSizes(10, point_stream.num_objects)
      [] pl = "boxes" -> SourceSizes(1, box_stream.num_objects)
      [] pl = "freehand" -> SourceSizes(1, freehand_stream.num_objects)
      [] OTHER -> {0, 1}

Source(src, n) ==
    CASE src = "points" -> points(n)
      [] src = "box_poly" -> box_poly(n)
      [] src = "mask_poly" -> mask_poly(n)
      [] src = "path" -> path(n)
      [] src = "new_paths" -> new_paths(n)
      [] OTHER -> new_polys(n)

\* the notebook has run up to the plot the user works in
InitPlot(plots) ==
    /\ plot \in plots
    /\ tool = None
    /\ \E n \in PlotSizes(plot) :
          /\ canvas = [src \in Sources |->
                          IF src \in PlotSources(plot)
                          THEN Source(src, n) ELSE <<>>]
          /\ nextId = n + 1
    /\ data = Sync(canvas)
    /\ gestures = 0
    /\ last = [op |-> "none", evicted |-> FALSE]

InitKernel ==
    /\ execution_count = [c \in Cells |-> 0]
    /\ outputs = [c \in Cells |-> Nothing]
    /\ raised = None
    /\ \E made \in BOOLEAN :
          fs = [dirs |-> {dirname(shapefile)}
                         \cup (IF made THEN {dirname(edited_shape_fname)} ELSE {}),
                files |-> [p \in {shapefile} |-> <<watershed_boundary>>]]
    /\ mask_shape = geom_to_array(from_shapefile(fs.files, shapefile))

NoBBox ==
    /\ poly = <<>>
    /\ result = [called |-> FALSE, value |-> <<>>]

\* vertices selected for deletion: one or more of those a shape can have
Selections == (SUBSET (1..(MaxVerts + 1))) \ {{}}

\* the tool selected in the toolbar, if any
Selected == {tool} \cap StreamNames

InitAll ==
    /\ InitPlot(DOMAIN PlotStreams)
    /\ InitKernel
    /\ dirname(edited_shape_fname) \notin fs.dirs
    /\ NoBBox

NextAll ==
    \/ \E t \in StreamNames : SelectTool(t)
    \/ \E p \in Vertex : AddPoint(p)
    \/ \E i \in 1..10, d \in Steps : MovePoint(i, d)
    \/ \E i \in 1..10 : DeletePoint(i)
    \/ \E a \in Vertex, d \in Offsets : AddBox(a, d)
    \/ \E i \in 1..3, d \in Offsets : MoveBox(i, d)
    \/ \E i \in 1..3 : DeleteBox(i)
    \/ \E s \in Strokes : AddFreehand(s)
    \/ \E i \in 1..3 : DeleteFreehand(i)
    \/ \E t \in Selected, s \in Strokes : AddPoly(t, s)
    \/ \E t \in Selected, i \in 1..(MaxGestures + 1), d \in Offsets :
          MovePoly(t, i, d)
    \/ \E t \in Selected, i \in 1..(MaxGestures + 1) : DeletePoly(t, i)
    \/ \E t \in Selected, i \in 1..(MaxGestures + 1),
          k \in 1..(MaxVerts + 1), d \in Steps : AddVertex(t, i, k, d)
    \/ \E t \in Selected, i \in 1..(MaxGestures + 1),
          k \in 1..(MaxVerts + 1), d \in Steps : MoveVertex(t, i, k, d)
    \/ \E t \in Selected, i \in 1..(MaxGestures + 1),
          K \in Selections : DeleteVertex(t, i, K)

SpecAll == InitAll /\ [][NextAll]_vars

InitRead ==
    /\ InitPlot({"points", "boxes"})
    /\ InitKernel
    /\ dirname(edited_shape_fname) \notin fs.dirs
    /\ NoBBox

NextRead ==
    \/ \E t \in StreamNames : SelectTool(t)
    \/ \E p \in Vertex : AddPoint(p)
    \/ \E i \in 1..10, d \in Steps : MovePoint(i, d)
    \/ \E i \in 1..10 : DeletePoint(i)
    \/ \E a \in Vertex, d \in Offsets : AddBox(a, d)
    \/ \E i \in 1..3, d \in Offsets : MoveBox(i, d)
    \/ \E i \in 1..3 : DeleteBox(i)
    \/ RunPointsCell
    \/ RunBBoxCell

SpecRead == InitRead /\ [][NextRead]_vars

InitExport ==
    /\ InitPlot({"mask"})
    /\ InitKernel
    /\ NoBBox

NextExport ==
    \/ \E t \in StreamNames : SelectTool(t)
    \/ \E t \in Selected, i \in 1..1,
          k \in 1..(MaxVerts + 1), d \in Steps : AddVertex(t, i, k, d)
    \/ \E t \in Selected, i \in 1..1,
          k \in 1..(MaxVerts + 1), d \in Steps : MoveVertex(t, i, k, d)
    \/ \E t \in Selected, i \in 1..1,
          K \in Selections : DeleteVertex(t, i, K)
    \/ RunExportCell

SpecExport == InitExport /\ [][NextExport]_vars

InitBBox ==
    /\ InitPlot({"boxes"})
    /\ canvas["box_poly"] = box_poly(1)
    /\ InitKernel
    /\ dirname(edited_shape_fname) \notin fs.dirs
    /\ poly \in [1..4 -> Vertex]
    /\ result = [called |-> FALSE, value |-> <<>>]

NextBBox == CallBBox

SpecBBox == InitBBox /\ [][NextBBox]_vars

\* ------------------------------------------------------------ properties

Range(f) == {f[i] : i \in DOMAIN f}

\* the shape put on the plot earliest
Oldest(shapes) ==
    CHOOSE s \in Range(shapes) : \A r \in Range(shapes) : s.born <= r.born

Without(shapes, x) == SelectSeq(shapes, LAMBDA y : y # x)

\* four vertices in perimeter order: the edges alternate between the axes
IsPerimeterRect(g) ==
    /\ Len(g) = 4
    /\ \/ /\ g[1][1] = g[2][1] /\ g[2][2] = g[3][2]
          /\ g[3][1] = g[4][1] /\ g[4][2] = g[1][2]
       \/ /\ g[1][2] = g[2][2] /\ g[2][1] = g[3][1]
          /\ g[3][2] = g[4][2] /\ g[4][1] = g[1][1]

Xs(g) == {g[i][1] : i \in 1..Len(g)}
Ys(g) == {g[i][2] : i \in 1..Len(g)}
Min(S) == CHOOSE x \in S : \A y \in S : x <= y

C4_BBoxOfRectangle ==
    result.called =>
        /\ result.value = <<poly[1][1], poly[1][2], poly[3][1], poly[3][2]>>
        /\ IsPerimeterRect(poly) =>
              /\ {result.value[1], result.value[3]} = {Min(Xs(poly)), Max(Xs(poly))}
              /\ {result.value[2], result.value[4]} = {Min(Ys(poly)), Max(Ys(poly))}

C4_Witness ==
    /\ result.called
    /\ IsPerimeterRect(poly)
    /\ poly[1][1] > poly[3][1]
    /\ poly[1][2] < poly[3][2]

C8_OtherStreamUntouched ==
    [][(gestures' # gestures /\ plot = "polypath") =>
          /\ tool = "poly_stream" => data'["path_stream"] = data["path_stream"]
          /\ tool = "path_stream" => data'["poly_stream"] = data["poly_stream"]]_vars

C8_Witness ==
    /\ plot = "polypath"
    /\ tool = "path_stream"
    /\ last.op = "add"
    /\ data["poly_stream"] # <<>>
    /\ Len(data["path_stream"]) > Len(data["poly_stream"])

\* C9: what a reading cell displays is the shapes present when it ran:
\* gestures made afterwards leave the output as it is, each run shows the
\* shapes present at that run, and a run on empty data shows nothing
C9_ReadIsSnapshot ==
    [][/\ gestures' # gestures => outputs' = outputs
       /\ execution_count'["dframe"] # execution_count["dframe"] =>
             LET now == canvas["points"]
                 out == outputs'["dframe"]
             IN  IF now = <<>> THEN ~out.shown
                 ELSE /\ out.shown
                      /\ Len(out.value) = Len(now)
                      /\ \A i \in 1..Len(now) : out.value[i] = now[i].geom[1]
       /\ execution_count'["bboxes"] # execution_count["bboxes"] =>
             LET now == canvas["box_poly"]
                 out == outputs'["bboxes"]
             IN  IF now = <<>> THEN ~out.shown
                 ELSE /\ out.shown
                      /\ Len(out.value) = Len(now)
                      /\ \A i \in 1..Len(now) :
                            out.value[i] = <<now[i].geom[1][1], now[i].geom[1][2],
                                             now[i].geom[3][1], now[i].geom[3][2]>>]_vars

C9_Witness ==
    /\ outputs["dframe"].shown
    /\ gestures > 0
    /\ Len(outputs["dframe"].value) # Len(data["point_stream"])
    /\ execution_count["dframe"] = MaxRuns

\* C10: once the export cell has run, mask_shape is a Shape that opts()
\* applies to, whether or not the stream had data; the original shapefile
\* is as it was and the directory of the edited file exists
C10_ExportLeavesShape ==
    execution_count["export"] > 0 =>
        /\ mask_shape.type = "Shape"
        /\ raised = None
        /\ fs.files[shapefile] = <<watershed_boundary>>
        /\ edited_shape_fname \in DOMAIN fs.files =>
              dirname(edited_shape_fname) \in fs.dirs

====
